---- MODULE Spec2Model ----
(***************************************************************************)
(* A model of the Godot scene parser of main.go: the line scanner of       *)
(* ParseTscnFile with its multiline accumulator, the resource registry,    *)
(* the node builder, the scene tree assembler (buildSceneTree and          *)
(* findParentInProcessedNodes) and the resource reference resolver.        *)
(*                                                                         *)
(* Go strings are sequences of one-character strings, so that trimming,    *)
(* prefix and suffix tests, splitting and the regular expressions of the   *)
(* source are computed character by character.  A *GodotNode is the index  *)
(* of the node in AllNodes (0 is nil); the node under construction, which  *)
(* is not in AllNodes yet, is held in currentNode (<<>> is nil).           *)
(***************************************************************************)
EXTENDS Integers, Sequences, FiniteSets, TLC

VARIABLES
    input,             \* the lines bufio.Scanner will deliver, in order
    lineNum,           \* lineNum: number of lines read so far
    pc,                \* "scan", "build", "done", "resolved", "found", "path", "failed"
    currentNode,       \* <<>> (nil) or <<node>>: the node being filled
    inNode,            \* inNode
    inMultiline,       \* inMultiline
    multilineProperty, \* multilineProperty
    multilineValue,    \* multilineValue (strings.Builder contents)
    AllNodes,          \* scene.AllNodes
    RootNode,          \* scene.RootNode: index in AllNodes, 0 is nil
    ExtResources,      \* scene.ExtResources
    SubResources,      \* scene.SubResources
    pathMap,           \* pathMap of buildSceneTree
    i,                 \* number of nodes buildSceneTree has processed
    readInMultiline,   \* history: inMultiline as it was when line k was read
    resourceRef,       \* the tokens of the value resolveResourcePath was called on
    resolved,          \* its result
    err,               \* the error ParseTscnFile returns
    nodePath,          \* the query findNodeByPath was called on
    targetNode,        \* the node findNodeByPath returned, or getPathToNode was called on
    pathToNode         \* the result of getPathToNode

vars == <<input, lineNum, pc, currentNode, inNode, inMultiline,
          multilineProperty, multilineValue, AllNodes, RootNode,
          ExtResources, SubResources, pathMap, i, readInMultiline,
          resourceRef, resolved, err, nodePath, targetNode, pathToNode>>

----------------------------------------------------------------------------
(* Bounds of the model. *)

\* longest input, in lines, of the scanner specification
MaxLines == 4
\* most node declarations of an input of the assembler specification
MaxNodes == 4
\* most resource declarations of an input of the resolver specification
MaxResources == 3

----------------------------------------------------------------------------
(* Characters and the strings package. *)

Q == "\""
NL == "\n"
BS == "\\"
EmptyStr == << >>

WordChars ==
    {"a","b","c","d","e","f","g","h","i","j","k","l","m","n","o","p","q","r",
     "s","t","u","v","w","x","y","z","A","B","C","D","E","F","G","H","I","J",
     "K","L","M","N","O","P","Q","R","S","T","U","V","W","X","Y","Z","0","1",
     "2","3","4","5","6","7","8","9","_"}

SpaceChars == {" ", "\t", "\r", "\n"}

IsSpace(c) == c \in SpaceChars

SetMin(S) == CHOOSE x \in S : \A y \in S : x <= y

SetMax(S) == CHOOSE x \in S : \A y \in S : x >= y

HasPrefix(s, p) == Len(s) >= Len(p) /\ SubSeq(s, 1, Len(p)) = p

HasSuffix(s, p) == Len(s) >= Len(p) /\ SubSeq(s, Len(s) - Len(p) + 1, Len(s)) = p

TrimPrefix(s, p) == IF HasPrefix(s, p) THEN SubSeq(s, Len(p) + 1, Len(s)) ELSE s

TrimSuffix(s, p) == IF HasSuffix(s, p) THEN SubSeq(s, 1, Len(s) - Len(p)) ELSE s

TrimSpace(s) ==
    LET keep == {k \in 1..Len(s) : ~IsSpace(s[k])}
    IN  IF keep = {} THEN EmptyStr ELSE SubSeq(s, SetMin(keep), SetMax(keep))

\* the start positions of sub in s
Occurrences(s, sub) ==
    {p \in 1..(Len(s) - Len(sub) + 1) :
        \A j \in 1..Len(sub) : s[p + j - 1] = sub[j]}

Contains(s, sub) == Occurrences(s, sub) # {}

\* strings.SplitN(s, sep, 2) of a string that contains sep
SplitN2(s, sep) ==
    LET p == SetMin(Occurrences(s, sep))
    IN  <<SubSeq(s, 1, p - 1), SubSeq(s, p + Len(sep), Len(s))>>

\* a variant that takes the first element
FirstComponent(s) ==
    LET ps == Occurrences(s, <<"/">>)
    IN  IF ps = {} THEN s ELSE SubSeq(s, 1, SetMin(ps) - 1)

\* the last element of strings.Split(s, "/")
LastComponent(s) ==
    LET ps == Occurrences(s, <<"/">>)
    IN  IF ps = {} THEN s ELSE SubSeq(s, SetMax(ps) + 1, Len(s))

RECURSIVE ReplaceAll(_, _, _)
ReplaceAll(s, old, new) ==
    IF Len(s) = 0 THEN EmptyStr
    ELSE IF HasPrefix(s, old)
         THEN new \o ReplaceAll(SubSeq(s, Len(old) + 1, Len(s)), old, new)
         ELSE <<Head(s)>> \o ReplaceAll(Tail(s), old, new)

\* the value as parseNodeProperty converts it: every \n escape becomes a newline
UnescapeNewlines(value) == ReplaceAll(value, <<BS, "n">>, <<NL>>)

----------------------------------------------------------------------------
(* Go maps, as functions on the set of their keys. *)

Range(f) == {f[x] : x \in DOMAIN f}

EmptyMap == [k \in {} |-> 0]

\* a variant that keeps the value a key already has
MapPutIfAbsent(m, k, v) == IF k \in DOMAIN m THEN m ELSE [x \in (DOMAIN m) \cup {k} |-> IF x = k THEN v ELSE m[x]]

\* m[k] = v: the value a key had is replaced
MapPut(m, k, v) == [x \in (DOMAIN m) \cup {k} |-> IF x = k THEN v ELSE m[x]]

HasKey(m, k) == k \in DOMAIN m

----------------------------------------------------------------------------
(* The regular expressions of the source.  Each is an opening literal that *)
(* ends in a quote, a submatch of characters other than the quote, the     *)
(* closing quote and a closing literal.  FindStringSubmatch returns the    *)
(* leftmost match: the first place where the opening literal stands (after *)
(* a word boundary when the expression starts with \b), the text up to the *)
(* next quote is the submatch, and the closing literal follows that quote. *)

NextQuote(s, from) ==
    LET qs == {q \in from..Len(s) : s[q] = Q}
    IN  IF qs = {} THEN 0 ELSE SetMin(qs)

MatchStarts(s, open, close, boundary) ==
    {p \in Occurrences(s, open) :
        /\ (boundary => (p = 1 \/ s[p - 1] \notin WordChars))
        /\ LET q == NextQuote(s, p + Len(open))
           IN  /\ q # 0
               /\ q + Len(close) <= Len(s)
               /\ SubSeq(s, q + 1, q + Len(close)) = close}

\* <<matched, submatch 1>>
FindStringSubmatch(s, open, close, boundary) ==
    LET ps == MatchStarts(s, open, close, boundary)
    IN  IF ps = {} THEN <<FALSE, EmptyStr>>
        ELSE LET p == SetMin(ps)
             IN  <<TRUE, SubSeq(s, p + Len(open), NextQuote(s, p + Len(open)) - 1)>>

\* the regexp key=QUOTE([^QUOTE]*)QUOTE: the value of the attribute, empty when there is no match
QuotedAttr(line, key, boundary) ==
    FindStringSubmatch(line, key \o <<"=", Q>>, EmptyStr, boundary)[2]

K_name == <<"n","a","m","e">>
K_type == <<"t","y","p","e">>
K_parent == <<"p","a","r","e","n","t">>
K_path == <<"p","a","t","h">>
K_id == <<"i","d">>
K_uid == <<"u","i","d">>
K_script == <<"s","c","r","i","p","t">>
K_index == <<"i", "n", "d", "e", "x">>
S_gd_scene == <<"[","g","d","_","s","c","e","n","e">>
S_ext_resource == <<"[","e","x","t","_","r","e","s","o","u","r","c","e">>
S_sub_resource == <<"[","s","u","b","_","r","e","s","o","u","r","c","e">>
S_node == <<"[","n","o","d","e">>
S_ExtResource == <<"E","x","t","R","e","s","o","u","r","c","e">>
S_SubResource == <<"S","u","b","R","e","s","o","u","r","c","e">>

Digits == <<"0", "1", "2", "3", "4", "5", "6", "7", "8", "9">>

RECURSIVE Atoi(_)
\* strconv.Atoi on a string of digits short enough not to overflow
Atoi(s) ==
    IF s = << >> THEN 0
    ELSE 10 * Atoi(SubSeq(s, 1, Len(s) - 1))
         + (CHOOSE d \in 0..9 : Digits[d + 1] = s[Len(s)])

\* a variant that reports a missing or unparsable index as -1
IndexAttrStrict(line) ==
    LET open == K_index \o <<"=", Q>>
        ps == {p \in Occurrences(line, open) :
                  LET q == NextQuote(line, p + Len(open))
                  IN  /\ q > p + Len(open)
                      /\ \A j \in (p + Len(open))..(q - 1) : line[j] \in Range(Digits)}
    IN  IF ps = {} THEN 0 - 1
        ELSE LET p == SetMin(ps)
             IN  Atoi(SubSeq(line, p + Len(open), NextQuote(line, p + Len(open)) - 1))

\* the regexp index=QUOTE(\d+)QUOTE and strconv.Atoi on its submatch: zero when
\* there is no match
IndexAttr(line) ==
    LET open == K_index \o <<"=", Q>>
        ps == {p \in Occurrences(line, open) :
                  LET q == NextQuote(line, p + Len(open))
                  IN  /\ q > p + Len(open)
                      /\ \A j \in (p + Len(open))..(q - 1) : line[j] \in Range(Digits)}
    IN  IF ps = {} THEN 0
        ELSE LET p == SetMin(ps)
             IN  Atoi(SubSeq(line, p + Len(open), NextQuote(line, p + Len(open)) - 1))

----------------------------------------------------------------------------
(* The resource registry. *)

\* a variant whose id expression has no word boundary, so that it also matches
\* inside uid
parseExtResourceLooseId(line, ext) ==
    LET resource == [ID   |-> QuotedAttr(line, K_id, FALSE),
                     Type |-> QuotedAttr(line, K_type, FALSE),
                     Path |-> QuotedAttr(line, K_path, FALSE),
                     UID  |-> QuotedAttr(line, K_uid, FALSE)]
    IN  IF resource.ID # EmptyStr THEN MapPut(ext, resource.ID, resource)
        ELSE IF resource.UID # EmptyStr THEN MapPut(ext, resource.UID, resource)
        ELSE ext

\* a variant that keeps the first resource declared under a key
parseExtResourceKeepFirst(line, ext) ==
    LET resource == [ID   |-> QuotedAttr(line, K_id, TRUE),
                     Type |-> QuotedAttr(line, K_type, FALSE),
                     Path |-> QuotedAttr(line, K_path, FALSE),
                     UID  |-> QuotedAttr(line, K_uid, FALSE)]
        key == IF resource.ID # EmptyStr THEN resource.ID ELSE resource.UID
    IN  IF key = EmptyStr \/ HasKey(ext, key) THEN ext ELSE MapPut(ext, key, resource)

\* parseExtResource: the registry after the declaration on line
parseExtResource(line, ext) ==
    LET resource == [ID   |-> QuotedAttr(line, K_id, TRUE),
                     Type |-> QuotedAttr(line, K_type, FALSE),
                     Path |-> QuotedAttr(line, K_path, FALSE),
                     UID  |-> QuotedAttr(line, K_uid, FALSE)]
    IN  IF resource.ID # EmptyStr THEN MapPut(ext, resource.ID, resource)
        ELSE IF resource.UID # EmptyStr THEN MapPut(ext, resource.UID, resource)
        ELSE ext

\* parseSubResource: the registry after the declaration on line
parseSubResource(line, sub) ==
    LET resource == [ID   |-> QuotedAttr(line, K_id, FALSE),
                     Type |-> QuotedAttr(line, K_type, FALSE),
                     Path |-> EmptyStr,
                     UID  |-> EmptyStr]
    IN  IF resource.ID # EmptyStr THEN MapPut(sub, resource.ID, resource) ELSE sub

\* resolveResourcePath
resolveResourcePath(ref, ext, sub) ==
    LET e == FindStringSubmatch(ref, S_ExtResource \o <<"(", Q>>, <<")">>, FALSE)
        u == FindStringSubmatch(ref, S_SubResource \o <<"(", Q>>, <<")">>, FALSE)
    IN  IF e[1] /\ HasKey(ext, e[2]) THEN ext[e[2]].Path
        ELSE IF u[1] /\ HasKey(sub, u[2])
             THEN S_SubResource \o <<"(">> \o sub[u[2]].Type \o <<")">>
             ELSE EmptyStr

----------------------------------------------------------------------------
(* The node builder. *)

\* parseNodeHeader
parseNodeHeader(line) ==
    [Name         |-> QuotedAttr(line, K_name, FALSE),
     OriginalName |-> EmptyStr,
     Type         |-> QuotedAttr(line, K_type, FALSE),
     Parent       |-> QuotedAttr(line, K_parent, FALSE),
     Index        |-> IndexAttr(line),
     Path         |-> EmptyStr,
     Script       |-> EmptyStr,
     Properties   |-> EmptyMap,
     Children     |-> << >>]

\* node.Properties[key] = value, and node.Script when the key is script
SetProperty(node, key, value) ==
    [node EXCEPT !.Properties = MapPut(@, key, value),
                 !.Script = IF key = K_script THEN value ELSE @]

\* a variant that also strips a pair of enclosing quotes
PropertyValueUnquoted(raw) ==
    LET value == TrimSpace(raw)
    IN  UnescapeNewlines(TrimSuffix(TrimPrefix(value, <<Q>>), <<Q>>))

\* the value part of parseNodeProperty: a lone opening or a lone closing quote
\* is dropped, then the newline escapes are converted
PropertyValue(raw) ==
    LET value == TrimSpace(raw)
        cut == IF HasPrefix(value, <<Q>>) /\ ~HasSuffix(value, <<Q>>)
                 THEN TrimPrefix(value, <<Q>>)
               ELSE IF HasSuffix(value, <<Q>>) /\ ~HasPrefix(value, <<Q>>)
                 THEN TrimSuffix(value, <<Q>>)
               ELSE value
    IN  UnescapeNewlines(cut)

\* a variant that stores nothing
parseNodePropertyIgnored(line, node) == node

\* parseNodeProperty
parseNodeProperty(line, node) ==
    IF Contains(line, <<"=">>)
    THEN LET parts == SplitN2(line, <<"=">>)
         IN  SetProperty(node, TrimSpace(parts[1]), PropertyValue(parts[2]))
    ELSE node

\* the test of ParseTscnFile for the start of a multiline value
StartsMultiline(line) ==
    /\ Contains(line, <<"=">>)
    /\ LET value == TrimSpace(SplitN2(line, <<"=">>)[2])
       IN  HasPrefix(value, <<Q>>) /\ ~HasSuffix(value, <<Q>>)

\* the first fragment written to multilineValue
FirstFragment(line) ==
    TrimPrefix(TrimSpace(SplitN2(line, <<"=">>)[2]), <<Q>>) \o <<NL>>

\* a variant that also ends the value at a line that opens a section
EndsMultilineAtSection(line) == HasSuffix(line, <<Q>>) \/ HasPrefix(line, <<"[">>)

\* a variant that adds a continuation line without its newline
ContinuationFragmentBare(line) == line

\* the fragment a continuation line adds to multilineValue
ContinuationFragment(line) == line \o <<NL>>

\* the fragment the closing line adds to multilineValue
ClosingFragment(line) == TrimSuffix(line, <<Q>>)

\* the test for the closing line of a multiline value
EndsMultiline(line) == HasSuffix(line, <<Q>>)

\* a variant that replaces the only node kept so far instead of appending
AppendCurrentOverwrite(nodes, cur) ==
    IF cur # << >> THEN (IF nodes = << >> THEN <<cur[1]>> ELSE [nodes EXCEPT ![Len(nodes)] = cur[1]])
    ELSE nodes

\* scene.AllNodes = append(scene.AllNodes, currentNode) when currentNode != nil
AppendCurrent(nodes, cur) == IF cur # << >> THEN Append(nodes, cur[1]) ELSE nodes

----------------------------------------------------------------------------
(* The scanner and its buffer. *)

\* maxCapacity, the size of the buffer given to scanner.Buffer, scaled down from
\* 10MB to a size larger than every declaration of the specifications below
maxCapacity == 40

\* the error values of ParseTscnFile
Nil == "nil"

ErrTooLong == "bufio.Scanner: token too long"

ErrOpen == "failed to open file"

ErrRead == "read error"

\* scanner.Scan gives up on a line that fills the buffer before its end is seen
TooLong(text) == Len(text) >= maxCapacity

----------------------------------------------------------------------------
(* ParseTscnFile: one pass of the scanner loop per action. *)

ScanLine ==
    /\ pc = "scan"
    /\ lineNum < Len(input)
    /\ ~TooLong(input[lineNum + 1])
    /\ lineNum' = lineNum + 1
    /\ readInMultiline' = Append(readInMultiline, inMultiline)
    /\ LET line == TrimSpace(input[lineNum + 1])
       IN  IF inMultiline
           THEN IF EndsMultiline(line)
                THEN /\ currentNode' =
                          IF currentNode # << >>
                          THEN <<SetProperty(currentNode[1], multilineProperty,
                                             multilineValue \o ClosingFragment(line))>>
                          ELSE currentNode
                     /\ inMultiline' = FALSE
                     /\ multilineProperty' = EmptyStr
                     /\ multilineValue' = EmptyStr
                     /\ UNCHANGED <<inNode, AllNodes, ExtResources, SubResources>>
                ELSE /\ multilineValue' = multilineValue \o ContinuationFragment(line)
                     /\ UNCHANGED <<currentNode, inNode, inMultiline, multilineProperty,
                                    AllNodes, ExtResources, SubResources>>
           ELSE IF line = EmptyStr \/ HasPrefix(line, <<";">>)
           THEN UNCHANGED <<currentNode, inNode, inMultiline, multilineProperty,
                            multilineValue, AllNodes, ExtResources, SubResources>>
           ELSE IF HasPrefix(line, S_gd_scene)
           THEN /\ inNode' = FALSE
                /\ UNCHANGED <<currentNode, inMultiline, multilineProperty,
                               multilineValue, AllNodes, ExtResources, SubResources>>
           ELSE IF HasPrefix(line, S_ext_resource)
           THEN /\ ExtResources' = parseExtResource(line, ExtResources)
                /\ inNode' = FALSE
                /\ UNCHANGED <<currentNode, inMultiline, multilineProperty,
                               multilineValue, AllNodes, SubResources>>
           ELSE IF HasPrefix(line, S_sub_resource)
           THEN /\ SubResources' = parseSubResource(line, SubResources)
                /\ inNode' = FALSE
                /\ UNCHANGED <<currentNode, inMultiline, multilineProperty,
                               multilineValue, AllNodes, ExtResources>>
           ELSE IF HasPrefix(line, S_node)
           THEN /\ AllNodes' = AppendCurrent(AllNodes, currentNode)
                /\ currentNode' = <<parseNodeHeader(line)>>
                /\ inNode' = TRUE
                /\ UNCHANGED <<inMultiline, multilineProperty, multilineValue,
                               ExtResources, SubResources>>
           ELSE IF HasPrefix(line, <<"[">>)
           THEN /\ inNode' = FALSE
                /\ UNCHANGED <<currentNode, inMultiline, multilineProperty,
                               multilineValue, AllNodes, ExtResources, SubResources>>
           ELSE IF inNode /\ currentNode # << >>
           THEN IF StartsMultiline(line)
                THEN /\ inMultiline' = TRUE
                     /\ multilineProperty' = TrimSpace(SplitN2(line, <<"=">>)[1])
                     /\ multilineValue' = multilineValue \o FirstFragment(line)
                     /\ UNCHANGED <<currentNode, inNode, AllNodes, ExtResources,
                                    SubResources>>
                ELSE /\ currentNode' = <<parseNodeProperty(line, currentNode[1])>>
                     /\ UNCHANGED <<inNode, inMultiline, multilineProperty,
                                    multilineValue, AllNodes, ExtResources, SubResources>>
           ELSE UNCHANGED <<currentNode, inNode, inMultiline, multilineProperty,
                            multilineValue, AllNodes, ExtResources, SubResources>>
    /\ UNCHANGED <<input, pc, RootNode, pathMap, i, resourceRef, resolved, err,
                   nodePath, targetNode, pathToNode>>

\* a variant that commits a multiline value still open at the end of the input
EndOfInputCommitting ==
    /\ pc = "scan"
    /\ IF lineNum < Len(input) THEN TooLong(input[lineNum + 1]) ELSE TRUE
    /\ err' = IF lineNum = Len(input) THEN Nil ELSE ErrTooLong
    /\ AllNodes' =
          IF inMultiline /\ currentNode # << >>
          THEN Append(AllNodes, SetProperty(currentNode[1], multilineProperty, multilineValue))
          ELSE AppendCurrent(AllNodes, currentNode)
    /\ pc' = IF Len(AllNodes') = 0 THEN "done" ELSE "build"
    /\ UNCHANGED <<input, lineNum, currentNode, inNode, inMultiline,
                   multilineProperty, multilineValue, RootNode, ExtResources,
                   SubResources, pathMap, i, readInMultiline, resourceRef, resolved,
                   nodePath, targetNode, pathToNode>>

\* the end of the input: the last node is added and buildSceneTree starts
EndOfInput ==
    /\ pc = "scan"
    /\ IF lineNum < Len(input) THEN TooLong(input[lineNum + 1]) ELSE TRUE
    /\ err' = IF lineNum = Len(input) THEN Nil ELSE ErrTooLong
    /\ AllNodes' = AppendCurrent(AllNodes, currentNode)
    /\ pc' = IF Len(AllNodes') = 0 THEN "done" ELSE "build"
    /\ UNCHANGED <<input, lineNum, currentNode, inNode, inMultiline,
                   multilineProperty, multilineValue, RootNode, ExtResources,
                   SubResources, pathMap, i, readInMultiline, resourceRef, resolved,
                   nodePath, targetNode, pathToNode>>

\* os.Open fails: ParseTscnFile returns no scene and the error
OpenFails ==
    /\ pc = "scan"
    /\ lineNum = 0
    /\ currentNode = << >>
    /\ pc' = "failed"
    /\ err' = ErrOpen
    /\ UNCHANGED <<input, lineNum, currentNode, inNode, inMultiline,
                   multilineProperty, multilineValue, AllNodes, RootNode,
                   ExtResources, SubResources, pathMap, i, readInMultiline,
                   resourceRef, resolved, nodePath, targetNode, pathToNode>>

\* reading the file fails: scanner.Scan returns false, the loop ends as at the
\* end of the input and scanner.Err is the error of the read
ReadFails ==
    /\ pc = "scan"
    /\ err' = ErrRead
    /\ AllNodes' = AppendCurrent(AllNodes, currentNode)
    /\ pc' = IF Len(AllNodes') = 0 THEN "done" ELSE "build"
    /\ UNCHANGED <<input, lineNum, currentNode, inNode, inMultiline,
                   multilineProperty, multilineValue, RootNode, ExtResources,
                   SubResources, pathMap, i, readInMultiline, resourceRef, resolved,
                   nodePath, targetNode, pathToNode>>

----------------------------------------------------------------------------
(* The scene tree assembler. *)

\* a variant that takes the node declared last
LastNamed(nodes, n, name) ==
    LET ks == {k \in 1..n : nodes[k].OriginalName = name}
    IN  IF ks = {} THEN 0 ELSE SetMax(ks)

\* the first of the processed nodes (AllNodes[1..n]) named name, 0 when none is
FirstNamed(nodes, n, name) ==
    LET ks == {k \in 1..n : nodes[k].OriginalName = name}
    IN  IF ks = {} THEN 0 ELSE SetMin(ks)

\* the nodes the scan of pathMap for a path ending in a slash and parentPath
\* can return: Go ranges over a map in an unspecified order, so the first entry
\* found is any one of the entries that match
SuffixMatches(parentPath, pm) ==
    {pm[path] : path \in {q \in DOMAIN pm : HasSuffix(q, <<"/">> \o parentPath)}}

\* a variant that also matches, by name, the nodes not processed yet
findParentLookingAhead(parentPath, pm, nodes, n) ==
    LET ks == {k \in 1..Len(nodes) : nodes[k].Name = parentPath}
    IN  IF HasKey(pm, parentPath) THEN {pm[parentPath]}
        ELSE IF ks # {} THEN {SetMin(ks)}
        ELSE {0}

\* a variant that matches by name before it looks the path up
findParentByNameFirst(parentPath, pm, nodes, n) ==
    IF FirstNamed(nodes, n, parentPath) # 0
         THEN {FirstNamed(nodes, n, parentPath)}
    ELSE IF HasKey(pm, parentPath) THEN {pm[parentPath]}
    ELSE IF /\ Contains(parentPath, <<"/">>)
            /\ FirstNamed(nodes, n, LastComponent(parentPath)) # 0
         THEN {FirstNamed(nodes, n, LastComponent(parentPath))}
    ELSE IF SuffixMatches(parentPath, pm) # {}
         THEN SuffixMatches(parentPath, pm)
    ELSE {0}

\* findParentInProcessedNodes: the set of nodes it can return (0 is nil)
findParentInProcessedNodes(parentPath, pm, nodes, n) ==
    IF HasKey(pm, parentPath) THEN {pm[parentPath]}
    ELSE IF FirstNamed(nodes, n, parentPath) # 0
         THEN {FirstNamed(nodes, n, parentPath)}
    ELSE IF /\ Contains(parentPath, <<"/">>)
            /\ FirstNamed(nodes, n, LastComponent(parentPath)) # 0
         THEN {FirstNamed(nodes, n, LastComponent(parentPath))}
    ELSE IF SuffixMatches(parentPath, pm) # {}
         THEN SuffixMatches(parentPath, pm)
    ELSE {0}

\* a variant that makes every node with an empty parent reference the root
BecomesRootAlways(node, root) == node.Parent = EmptyStr

\* the first branch of the loop body: the node becomes the root at once
BecomesRootAtOnce(node, root) == node.Parent = EmptyStr /\ root = 0

\* a variant that looks a parent reference of one dot up like any other
ParentChoicesLookup(nodes, k, root, pm) ==
    LET node == nodes[k]
    IN  IF node.Parent = EmptyStr THEN {0}
        ELSE findParentInProcessedNodes(node.Parent, pm, nodes, k - 1)

\* the values parentNode can have when the attachment is decided
ParentChoices(nodes, k, root, pm) ==
    LET node == nodes[k]
    IN  IF node.Parent = EmptyStr \/ node.Parent = <<".">>
        THEN IF node.Parent = <<".">> /\ root # 0 THEN {root} ELSE {0}
        ELSE findParentInProcessedNodes(node.Parent, pm, nodes, k - 1)

\* a variant without the fallback to the root
AttachToParentOnly(parentNode, root) == parentNode

\* the node a node is attached to: parentNode, else the root (0: it is the root)
AttachTo(parentNode, root) == IF parentNode # 0 THEN parentNode ELSE root

\* a variant that joins the name of the parent instead of its path
PathUnderName(nodes, to, name) ==
    IF to = 0 THEN name ELSE nodes[to].Name \o <<"/">> \o name

\* the canonical path of a node attached to node number to (0: the root itself)
PathUnder(nodes, to, name) ==
    IF to = 0 THEN name ELSE nodes[to].Path \o <<"/">> \o name

\* a variant that never designates a root in the fallback branch
NewRootKept(to, k, root) == root

\* scene.RootNode after a node is attached to node number to: a node that
\* finds neither a parent nor a root becomes the root
NewRoot(to, k, root) == IF to = 0 THEN k ELSE root

\* a variant that puts the node before the children already there
PrependChild(children, node) == <<node>> \o children

\* parentNode.Children = append(parentNode.Children, node)
AppendChild(children, node) == Append(children, node)

\* one pass of the loop of buildSceneTree, over node number i + 1
BuildStep ==
    /\ pc = "build"
    /\ i < Len(AllNodes)
    /\ LET k == i + 1
           named == [AllNodes EXCEPT ![k].OriginalName = AllNodes[k].Name]
           node == named[k]
       IN  IF BecomesRootAtOnce(node, RootNode)
           THEN /\ RootNode' = k
                /\ AllNodes' = [named EXCEPT ![k].Path = node.Name]
                /\ pathMap' = MapPut(pathMap, node.Name, k)
           ELSE \E parentNode \in ParentChoices(named, k, RootNode, pathMap) :
                  LET to == AttachTo(parentNode, RootNode)
                      path == PathUnder(named, to, node.Name)
                  IN  /\ RootNode' = NewRoot(to, k, RootNode)
                      /\ AllNodes' =
                           IF to = 0
                           THEN [named EXCEPT ![k].Path = path]
                           ELSE [named EXCEPT ![k].Path = path,
                                              ![to].Children = AppendChild(@, k)]
                      /\ pathMap' = MapPut(pathMap, path, k)
    /\ i' = i + 1
    /\ pc' = IF i' = Len(AllNodes) THEN "done" ELSE "build"
    /\ UNCHANGED <<input, lineNum, currentNode, inNode, inMultiline,
                   multilineProperty, multilineValue, ExtResources, SubResources,
                   readInMultiline, resourceRef, resolved, err, nodePath,
                   targetNode, pathToNode>>

----------------------------------------------------------------------------
(* resolveResourcePath, called on the parsed scene. *)

\* a reference token: ExtResource or SubResource, an opening parenthesis, the
\* quoted id and a closing parenthesis
Token(kind, id) == kind \o <<"(", Q>> \o id \o <<Q, ")">>

RECURSIVE RefText(_)
\* a property value made of reference tokens <<kind, id>>, separated by spaces
RefText(tokens) ==
    IF tokens = << >> THEN EmptyStr
    ELSE Token(tokens[1][1], tokens[1][2])
         \o (IF Len(tokens) = 1 THEN EmptyStr ELSE <<" ">> \o RefText(Tail(tokens)))

\* the values resolveResourcePath is called on, as sequences of tokens
RefPool ==
    {<< <<S_ExtResource, <<"1">> >> >>,
     << <<S_ExtResource, <<"2">> >> >>,
     << <<S_ExtResource, EmptyStr>> >>,
     << <<S_SubResource, <<"1">> >> >>,
     << <<S_ExtResource, <<"2">> >>, <<S_ExtResource, <<"1">> >> >>,
     << <<S_SubResource, <<"1">> >>, <<S_ExtResource, <<"1">> >> >>,
     << <<S_ExtResource, <<"2">> >>, <<S_SubResource, <<"1">> >> >>}

Resolve ==
    /\ pc = "done"
    /\ \E tokens \in RefPool :
         /\ resourceRef' = tokens
         /\ resolved' = resolveResourcePath(RefText(tokens), ExtResources, SubResources)
    /\ pc' = "resolved"
    /\ UNCHANGED <<input, lineNum, currentNode, inNode, inMultiline,
                   multilineProperty, multilineValue, AllNodes, RootNode,
                   ExtResources, SubResources, pathMap, i, readInMultiline, err,
                   nodePath, targetNode, pathToNode>>

----------------------------------------------------------------------------
(* The queries on the parsed scene: findNodeByPath and getPathToNode. *)

\* a variant without the last loop, the one on paths that contain the query
findNodeByPathNoContains(nodes, path) ==
    LET all == 1..Len(nodes)
        exact == {k \in all : nodes[k].Path = path \/ nodes[k].OriginalName = path}
        suffix == {k \in all : HasSuffix(nodes[k].Path, <<"/">> \o path)}
    IN  IF exact # {} THEN SetMin(exact)
        ELSE IF suffix # {} THEN SetMin(suffix)
        ELSE 0

\* a variant that tries the suffix tier before the exact tier
findNodeByPathSuffixFirst(nodes, path) ==
    LET all == 1..Len(nodes)
        exact == {k \in all : nodes[k].Path = path \/ nodes[k].OriginalName = path}
        suffix == {k \in all : HasSuffix(nodes[k].Path, <<"/">> \o path)}
        contained == {k \in all : Contains(nodes[k].Path, path)}
    IN  IF suffix # {} THEN SetMin(suffix)
        ELSE IF exact # {} THEN SetMin(exact)
        ELSE IF contained # {} THEN SetMin(contained)
        ELSE 0

\* findNodeByPath: three loops over AllNodes, each returning at its first match
findNodeByPath(nodes, path) ==
    LET all == 1..Len(nodes)
        exact == {k \in all : nodes[k].Path = path \/ nodes[k].OriginalName = path}
        suffix == {k \in all : HasSuffix(nodes[k].Path, <<"/">> \o path)}
        contained == {k \in all : Contains(nodes[k].Path, path)}
    IN  IF exact # {} THEN SetMin(exact)
        ELSE IF suffix # {} THEN SetMin(suffix)
        ELSE IF contained # {} THEN SetMin(contained)
        ELSE 0

\* the queries findNodeByPath is called on
QueryPool == {<<"B">>, <<"A", "/", "B">>, <<"B", "/", "A">>, <<"/">>, <<"C">>}

Find ==
    /\ pc = "done"
    /\ \E path \in QueryPool :
         /\ nodePath' = path
         /\ targetNode' = findNodeByPath(AllNodes, path)
    /\ pc' = "found"
    /\ UNCHANGED <<input, lineNum, currentNode, inNode, inMultiline,
                   multilineProperty, multilineValue, AllNodes, RootNode,
                   ExtResources, SubResources, pathMap, i, readInMultiline,
                   resourceRef, resolved, err, pathToNode>>

RECURSIVE findPath(_, _, _, _)
RECURSIVE findPathAmong(_, _, _, _, _)

\* a variant that leaves a dead end on the path
findPathNoBacktrack(nodes, node, target, path) ==
    LET pushed == Append(path, node)
    IN  IF node = target THEN <<TRUE, pushed>>
        ELSE findPathAmong(nodes, nodes[node].Children, 1, target, pushed)

\* the closure findPath of getPathToNode: <<its result, path after the call>>
findPath(nodes, node, target, path) ==
    LET pushed == Append(path, node)
    IN  IF node = target THEN <<TRUE, pushed>>
        ELSE LET r == findPathAmong(nodes, nodes[node].Children, 1, target, pushed)
             IN  IF r[1] THEN r ELSE <<FALSE, SubSeq(r[2], 1, Len(r[2]) - 1)>>

\* the loop of findPath over the children of a node, from child number c on
findPathAmong(nodes, children, c, target, path) ==
    IF c > Len(children) THEN <<FALSE, path>>
    ELSE LET r == findPath(nodes, children[c], target, path)
         IN  IF r[1] THEN r ELSE findPathAmong(nodes, children, c + 1, target, r[2])

\* getPathToNode
getPathToNode(nodes, root, target) ==
    IF root # 0 THEN findPath(nodes, root, target, << >>)[2] ELSE << >>

\* getPathToNode called on nil (0) or on a node of the scene
GetPath ==
    /\ pc = "done"
    /\ \E target \in 0..Len(AllNodes) :
         /\ targetNode' = target
         /\ pathToNode' = getPathToNode(AllNodes, RootNode, target)
    /\ pc' = "path"
    /\ UNCHANGED <<input, lineNum, currentNode, inNode, inMultiline,
                   multilineProperty, multilineValue, AllNodes, RootNode,
                   ExtResources, SubResources, pathMap, i, readInMultiline,
                   resourceRef, resolved, err, nodePath>>

----------------------------------------------------------------------------
(* Inputs. *)

SeqsUpTo(S, n) == UNION {[1..m -> S] : m \in 0..n}

Attr(key, value) == <<" ">> \o key \o <<"=", Q>> \o value \o <<Q>>

\* a node declaration; an empty parent reference is written by leaving parent out
NodeLine(name, parent) ==
    S_node \o Attr(K_name, name)
           \o (IF parent = EmptyStr THEN EmptyStr ELSE Attr(K_parent, parent))
           \o <<"]">>

A_ == <<"A">>
B_ == <<"B">>
AB_ == <<"A", "/", "B">>
Dot == <<".">>

\* the node declarations of the assembler specification, as <<name, parent>>
TreeDecls ==
    {<<A_, EmptyStr>>, <<B_, EmptyStr>>, <<AB_, EmptyStr>>,
     <<A_, Dot>>, <<B_, Dot>>, <<AB_, Dot>>,
     <<A_, B_>>, <<B_, AB_>>, <<Dot, Dot>>}

TreeLines == {NodeLine(d[1], d[2]) : d \in TreeDecls}

----------------------------------------------------------------------------
(* Specifications. *)

InitWith(inputs) ==
    /\ input \in inputs
    /\ lineNum = 0
    /\ pc = "scan"
    /\ currentNode = << >>
    /\ inNode = FALSE
    /\ inMultiline = FALSE
    /\ multilineProperty = EmptyStr
    /\ multilineValue = EmptyStr
    /\ AllNodes = << >>
    /\ RootNode = 0
    /\ ExtResources = EmptyMap
    /\ SubResources = EmptyMap
    /\ pathMap = EmptyMap
    /\ i = 0
    /\ readInMultiline = << >>
    /\ resourceRef = << >>
    /\ resolved = EmptyStr
    /\ err = Nil
    /\ nodePath = EmptyStr
    /\ targetNode = 0
    /\ pathToNode = << >>

\* an external resource declaration <<path, id, uid>>; an attribute given as
\* None is left out, uid is written before id
None == <<"-">>

ExtLine(d) ==
    S_ext_resource
        \o (IF d[1] = None THEN EmptyStr ELSE Attr(K_path, d[1]))
        \o (IF d[3] = None THEN EmptyStr ELSE Attr(K_uid, d[3]))
        \o (IF d[2] = None THEN EmptyStr ELSE Attr(K_id, d[2]))
        \o <<"]">>

\* an embedded resource declaration <<type, id>>
SubLine(d) == S_sub_resource \o Attr(K_type, d[1]) \o Attr(K_id, d[2]) \o <<"]">>

\* the external resource declarations of the resolver specification
ExtDecls ==
    {<< <<"p">>, <<"1">>, None >>,
     << <<"q">>, <<"1">>, None >>,
     << <<"q">>, None, <<"1">> >>,
     << <<"r">>, <<"2">>, <<"u">> >>,
     << <<"p">>, None, None >>,
     << <<"p">>, EmptyStr, None >>,
     << <<"r">>, EmptyStr, <<"2">> >>,
     << <<"p">>, None, EmptyStr >>}

SubDecls == {<< <<"T">>, <<"1">> >>}

ResLines == {ExtLine(d) : d \in ExtDecls} \cup {SubLine(d) : d \in SubDecls}

\* the lines of the scanner specification
T_eq == <<"t", " ", "=", " ">>

QuotedLine == T_eq \o <<Q, "x", Q>>

EscapedLine == T_eq \o <<Q, "a", BS, "n", "b", Q>>

OpeningLine == T_eq \o <<Q, "x">>

ContinuationLine == <<" ", "y">>

ClosingLine == <<"z", Q, " ">>

BlankLine == <<" ">>

NodeA == NodeLine(A_, EmptyStr)

NodeB == <<" ">> \o NodeLine(B_, Dot)

ExtOne == ExtLine(<< <<"p">>, <<"1">>, None >>)

ScanLines ==
    {NodeA, NodeB, QuotedLine, EscapedLine, OpeningLine, ContinuationLine,
     ClosingLine, BlankLine, ExtOne}

\* the lines of the quoting specification: a value with a lone closing quote,
\* an opening line with a newline escape, a line that ends in an escaped quote
TrailingQuoteLine == T_eq \o <<"x", Q>>

EscapedOpening == T_eq \o <<Q, "a", BS, "n", "b">>

EscapedQuoteLine == <<"z", BS, Q>>

QuoteLines ==
    {NodeA, QuotedLine, EscapedLine, TrailingQuoteLine, EscapedOpening,
     ContinuationLine, EscapedQuoteLine, ClosingLine}

\* the scanner loop and the assembler
ParseNext == ScanLine \/ EndOfInput \/ BuildStep

\* the lines of the section specifications: a comment, a property with a bare
\* value, and the headers of the sections that are no nodes
CommentLine == <<";", "c">>

BareLine == <<"u", " ", "=", " ", "1">>

GdScene == S_gd_scene \o Attr(<<"f", "o", "r", "m", "a", "t">>, <<"3">>) \o <<"]">>

SubOne == SubLine(<< <<"T">>, <<"1">> >>)

OtherSection == <<"[", "c", "o", "n", "n", "e", "c", "t", "i", "o", "n", "]">>

\* lines that open and close a multiline value, and lines that would be
\* classified outside one
SectionLines ==
    {NodeA, NodeB, ExtOne, OpeningLine, BlankLine, CommentLine, ClosingLine}

SpecSection == InitWith(SeqsUpTo(SectionLines, MaxLines)) /\ [][ParseNext]_vars

\* node headers, property lines and the headers of other sections
ContextLines ==
    {NodeA, NodeB, QuotedLine, BareLine, GdScene, ExtOne, SubOne, OtherSection}

SpecContext == InitWith(SeqsUpTo(ContextLines, MaxLines)) /\ [][ParseNext]_vars

\* the scanner and the assembler, on inputs made of the lines of the quoting
\* specification
SpecQuote == InitWith(SeqsUpTo(QuoteLines, MaxLines)) /\ [][ParseNext]_vars

\* the assembler, on inputs made of node declarations
InitTree == InitWith(SeqsUpTo(TreeLines, MaxNodes))

SpecTree == InitTree /\ [][ParseNext]_vars

\* the resource registry and the resolver, on inputs made of resource declarations
InitRes == InitWith(SeqsUpTo(ResLines, MaxResources))

ResNext == ScanLine \/ EndOfInput \/ Resolve

SpecRes == InitRes /\ [][ResNext]_vars

\* the scanner and the assembler, on inputs made of the lines of the scanner
\* specification
SpecScan == InitWith(SeqsUpTo(ScanLines, MaxLines)) /\ [][ParseNext]_vars

\* a line of n characters
Pad(n) == [k \in 1..n |-> "y"]

\* the lines of the capacity specification: each of the first four fits the
\* buffer of the scanner, the last does not
LongOpening == T_eq \o <<Q>> \o Pad(maxCapacity - 10)

LongClosing == Pad(maxCapacity - 10) \o <<Q>>

LongestLine == Pad(maxCapacity - 1)

OverlongLine == Pad(maxCapacity + 1)

CapLines == {NodeA, LongOpening, LongClosing, LongestLine, OverlongLine}

\* the scanner and the assembler, on inputs with long lines
SpecCap == InitWith(SeqsUpTo(CapLines, MaxLines)) /\ [][ParseNext]_vars

\* the lines of the error specification: node declarations without
\* attributes, with an unquoted name and an index that is no number, with a
\* parent no node has; a property line without an equals sign; a reference to
\* a resource that is not declared; a resource without id and uid
BareNode == S_node \o <<"]">>

UnquotedNode == S_node \o <<" ">> \o K_name \o <<"=", "A">> \o Attr(K_index, <<"x">>) \o <<"]">>

OrphanNode ==
    S_node \o Attr(K_name, A_) \o Attr(K_parent, <<"Z">>) \o Attr(K_index, <<"7">>) \o <<"]">>

GarbageLine == <<"g", "a", "r", "b", "a", "g", "e">>

DanglingRef == K_script \o <<" ", "=", " ">> \o Token(S_ExtResource, <<"9">>)

KeylessResource == ExtLine(<< <<"p">>, None, None >>)

ErrLines ==
    {BareNode, UnquotedNode, OrphanNode, GarbageLine, DanglingRef, KeylessResource,
     OverlongLine}

\* ParseTscnFile with the failures of the file system
ErrNext == OpenFails \/ ReadFails \/ ScanLine \/ EndOfInput \/ BuildStep

SpecErr == InitWith(SeqsUpTo(ErrLines, MaxLines)) /\ [][ErrNext]_vars

\* the queries on the scenes of the assembler specification
FindNext == ScanLine \/ EndOfInput \/ BuildStep \/ Find \/ GetPath

SpecFind == InitTree /\ [][FindNext]_vars

\* the whole program, on inputs made of the lines of the scanner specification
Init == InitWith(SeqsUpTo(ScanLines, MaxLines))

Next ==
    \/ OpenFails \/ ReadFails \/ ScanLine \/ EndOfInput \/ BuildStep
    \/ Resolve \/ Find \/ GetPath

Spec == Init /\ [][Next]_vars

----------------------------------------------------------------------------
(* What the input declares, read off the declarations the lines were built *)
(* from and not through the parser.                                        *)

\* every node declaration line with the <<name, parent>> it was built from
\* <<line, <<name, parent, index>>>> of the node declarations of the inputs
NodeDeclTable ==
    {<<NodeLine(d[1], d[2]), <<d[1], d[2], 0>> >> : d \in TreeDecls}
        \cup {<<BareNode, <<EmptyStr, EmptyStr, 0>> >>,
              <<UnquotedNode, <<EmptyStr, EmptyStr, 0>> >>,
              <<OrphanNode, <<A_, <<"Z">>, 7>> >>}

IsNodeHeader(text) == LET t == TrimSpace(text) IN \E e \in NodeDeclTable : e[1] = t

\* <<name, parent>> of a node declaration line
NodeDeclOf(text) ==
    LET t == TrimSpace(text) IN (CHOOSE e \in NodeDeclTable : e[1] = t)[2]

\* the lines read so far that are node headers read outside a multiline value
HeaderLines ==
    {k \in 1..lineNum : ~readInMultiline[k] /\ IsNodeHeader(input[k])}

RECURSIVE DeclaredUpTo(_)
\* <<name, parent>> of the node headers among the first k lines, in order
DeclaredUpTo(k) ==
    IF k = 0 THEN << >>
    ELSE IF ~readInMultiline[k] /\ IsNodeHeader(input[k])
         THEN Append(DeclaredUpTo(k - 1), NodeDeclOf(input[k]))
         ELSE DeclaredUpTo(k - 1)

\* <<name, parent>> of the node headers read so far, in order
Declared == DeclaredUpTo(lineNum)

\* every external resource declaration line with its <<path, id, uid>>
ExtDeclTable == {<<ExtLine(d), d>> : d \in ExtDecls}

IsExtLine(text) == LET t == TrimSpace(text) IN \E e \in ExtDeclTable : e[1] = t

ExtDeclOf(text) ==
    LET t == TrimSpace(text) IN (CHOOSE e \in ExtDeclTable : e[1] = t)[2]

RECURSIVE ExtReadUpTo(_)
\* <<path, id, uid>> of the external declarations among the first k lines
ExtReadUpTo(k) ==
    IF k = 0 THEN << >>
    ELSE IF ~readInMultiline[k] /\ IsExtLine(input[k])
         THEN Append(ExtReadUpTo(k - 1), ExtDeclOf(input[k]))
         ELSE ExtReadUpTo(k - 1)

\* <<path, id, uid>> of the external declarations read so far, in order
ExtRead == ExtReadUpTo(lineNum)

\* a line the scanner loop takes for a property line
IsPropertyLine(line) ==
    /\ line # EmptyStr
    /\ line[1] \notin {";", "["}
    /\ \E k \in 1..Len(line) : line[k] = "="

\* the position of the first = sign of a property line
FirstEq(line) == SetMin({k \in 1..Len(line) : line[k] = "="})

KeyText(line) == TrimSpace(SubSeq(line, 1, FirstEq(line) - 1))

ValueText(line) == TrimSpace(SubSeq(line, FirstEq(line) + 1, Len(line)))

QuotedBothEnds(v) == Len(v) >= 1 /\ v[1] = Q /\ v[Len(v)] = Q

RECURSIVE Join(_, _)
\* strings.Join
Join(pieces, sep) ==
    IF pieces = << >> THEN EmptyStr
    ELSE IF Len(pieces) = 1 THEN pieces[1]
    ELSE pieces[1] \o sep \o Join(Tail(pieces), sep)

\* the line that opened the multiline value line k was read in: the last line
\* before k that was read outside a multiline value
OpeningLineOf(k) == SetMax({j \in 1..(k - 1) : ~readInMultiline[j]})

\* the nodes whose Children list holds n, once per place where it stands
ChildPlaces(n) ==
    {<<p, j>> \in (1..Len(AllNodes)) \X (1..Len(AllNodes)) :
        j <= Len(AllNodes[p].Children) /\ AllNodes[p].Children[j] = n}

ParentsOf(n) == {pl[1] : pl \in ChildPlaces(n)}

ParentOf(n) == CHOOSE p \in ParentsOf(n) : TRUE

RECURSIVE ReachesRoot(_, _)
\* following the parents from n leads to the root in at most fuel steps
ReachesRoot(n, fuel) ==
    \/ n = RootNode
    \/ /\ fuel > 0
       /\ ParentsOf(n) # {}
       /\ ReachesRoot(ParentOf(n), fuel - 1)

Parsed == pc \notin {"scan", "failed"}

Assembled == pc \in {"done", "resolved", "found", "path"}

----------------------------------------------------------------------------
(* The claims. *)

\* C1: after ParseTscnFile, AllNodes has one node per line that is a node
\* header read outside a multiline value, and holds them in declaration order
C1_NodePerHeader ==
    Parsed =>
        LET D == Declared
        IN  /\ Len(AllNodes) = Cardinality(HeaderLines)
            /\ Len(AllNodes) = Len(D)
            /\ \A j \in 1..Len(AllNodes) : AllNodes[j].Name = D[j][1]

\* a node header was read inside a multiline value and one outside it
C1_Witness ==
    /\ pc = "done"
    /\ Len(AllNodes) = 1
    /\ \E k \in 1..lineNum : readInMultiline[k] /\ IsNodeHeader(input[k])

\* the nodes declared with an empty parent reference
EmptyParentNodes == LET D == Declared IN {j \in 1..Len(D) : D[j][2] = EmptyStr}

\* C2 as stated: when some node declares an empty parent reference, RootNode is
\* the first such node, whatever is declared before it
C2_RootIsFirstEmptyParent ==
    Assembled =>
        LET E == EmptyParentNodes
        IN  E # {} => RootNode = SetMin(E)

\* C2, amended: the first node with an empty parent reference is the root only
\* when no node is declared before it; otherwise the first declared node is
\* the root and that node is one of the children of the root
C2_RootIsFirstDeclared ==
    Assembled =>
        LET E == EmptyParentNodes
        IN  E # {} =>
              /\ RootNode = 1
              /\ SetMin(E) > 1 => SetMin(E) \in Range(AllNodes[RootNode].Children)

\* a node with an empty parent reference is declared after another node
C2_Witness ==
    /\ pc = "done"
    /\ LET E == EmptyParentNodes
       IN  /\ E # {}
           /\ SetMin(E) > 1
           /\ SetMin(E) \in Range(AllNodes[1].Children)

\* C3: after parsing, RootNode is nil exactly when the input declared no node,
\* and otherwise it is one of the nodes of AllNodes
C3_RootIffNodes ==
    Assembled =>
        /\ (RootNode = 0) <=> (HeaderLines = {})
        /\ HeaderLines # {} => RootNode \in 1..Len(AllNodes)

\* the first declared node has a parent reference and still becomes the root
C3_Witness ==
    /\ pc = "done"
    /\ Len(AllNodes) >= 2
    /\ Declared[1][2] # EmptyStr
    /\ RootNode = 1

\* C4, the paths: the path of the root is its name, and every other processed
\* node is in the Children of exactly one node, whose path joined to the name
\* by a slash is the path of the node
C4_PathsNow ==
    LET D == Declared
    IN  \A n \in 1..i :
          IF n = RootNode THEN AllNodes[n].Path = D[n][1]
          ELSE /\ Cardinality(ParentsOf(n)) = 1
               /\ AllNodes[n].Path =
                    AllNodes[ParentOf(n)].Path \o <<"/">> \o D[n][1]

\* C4, the assignment: a step changes the path of no node except the one the
\* assembler processes in that step
C4_PathsKept ==
    \A n \in 1..Len(AllNodes) : n # i + 1 => AllNodes'[n].Path = AllNodes[n].Path

\* C4: the canonical paths follow the Children links and are assigned once
C4_CanonicalPaths ==
    [](Parsed => C4_PathsNow) /\ [][Parsed => C4_PathsKept]_vars

\* a node two levels below the root has its path
C4_Witness ==
    /\ pc = "done"
    /\ \E n \in 1..Len(AllNodes) :
         /\ n # RootNode
         /\ ParentsOf(n) # {}
         /\ ParentOf(n) # RootNode
         /\ Len(AllNodes[n].Path) >= 5

\* C5: after assembly the Children links are a tree over AllNodes rooted at
\* RootNode: every node but the root stands once in one Children list, the
\* root stands in none, and every node is reached from the root
C5_ChildrenFormTree ==
    Assembled =>
        \A n \in 1..Len(AllNodes) :
            /\ Cardinality(ChildPlaces(n)) = (IF n = RootNode THEN 0 ELSE 1)
            /\ ReachesRoot(n, Len(AllNodes))

\* four nodes, one of them attached to the root because nothing resolves its
\* parent reference, one of them below a child of the root
C5_Witness ==
    /\ pc = "done"
    /\ Len(AllNodes) = 4
    /\ \E n \in 2..4 : ParentsOf(n) # {} /\ ParentOf(n) # RootNode
    /\ LET D == Declared
       IN  \E n \in 2..4 :
             /\ D[n][2] = B_
             /\ \A m \in 1..(n - 1) : D[m][1] = A_
             /\ ParentsOf(n) = {RootNode}

\* C6 as stated: parsing is deterministic, that is, every step of the
\* assembler has one outcome: two runs on the same input can differ only where
\* a step can attach the node to more than one parent
C6_Deterministic ==
    (pc = "build" /\ i < Len(AllNodes) /\ ~BecomesRootAtOnce(AllNodes[i + 1], RootNode)) =>
        Cardinality(ParentChoices(AllNodes, i + 1, RootNode, pathMap)) = 1

\* C7: a property line of a node section, read outside a multiline value,
\* whose value begins and ends with a quote is stored with both quotes: the
\* stored value is the trimmed text after the first = sign with its newline
\* escapes converted and nothing else changed
C7_QuotedValueKept ==
    (pc = "scan" /\ lineNum >= 1 /\ inNode /\ currentNode # << >>) =>
        LET line == TrimSpace(input[lineNum])
        IN  (~readInMultiline[lineNum] /\ IsPropertyLine(line)
                /\ QuotedBothEnds(ValueText(line))) =>
              /\ HasKey(currentNode[1].Properties, KeyText(line))
              /\ LET stored == currentNode[1].Properties[KeyText(line)]
                 IN  /\ QuotedBothEnds(stored)
                     /\ stored = UnescapeNewlines(ValueText(line))
                     /\ ReplaceAll(stored, <<NL>>, <<BS, "n">>) = ValueText(line)

\* the quoted value with an escape was stored, quotes kept and newline converted
C7_Witness ==
    /\ pc = "scan"
    /\ lineNum >= 2
    /\ input[lineNum] = EscapedLine
    /\ currentNode # << >>
    /\ HasKey(currentNode[1].Properties, <<"t">>)
    /\ currentNode[1].Properties[<<"t">>] = <<Q, "a", NL, "b", Q>>

\* C8: when the closing line of a multiline value has been read, the node has
\* under the key of the opening line one value: the first fragment without its
\* opening quote, the continuation lines and the closing line without its
\* closing quote, joined by newlines (each line as the scanner loop reads it,
\* that is, without the white space around it); and the accumulator is empty
\* and the classifier is in its normal state again
C8_MultilineCommitted ==
    (pc = "scan" /\ lineNum >= 2 /\ readInMultiline[lineNum] /\ ~inMultiline) =>
        LET k == lineNum
            o == OpeningLineOf(k)
            opening == TrimSpace(input[o])
            closing == TrimSpace(input[k])
            pieces == <<Tail(ValueText(opening))>>
                      \o [j \in 1..(k - o - 1) |-> TrimSpace(input[o + j])]
                      \o <<SubSeq(closing, 1, Len(closing) - 1)>>
        IN  /\ closing[Len(closing)] = Q
            /\ \A j \in (o + 1)..(k - 1) :
                 LET t == TrimSpace(input[j]) IN t = EmptyStr \/ t[Len(t)] # Q
            /\ ValueText(opening)[1] = Q
            /\ currentNode # << >>
            /\ HasKey(currentNode[1].Properties, KeyText(opening))
            /\ currentNode[1].Properties[KeyText(opening)] = Join(pieces, <<NL>>)
            /\ multilineProperty = EmptyStr
            /\ multilineValue = EmptyStr

\* a value opened on one line, continued on the next and closed on the third
C8_Witness ==
    /\ pc = "scan"
    /\ lineNum = 4
    /\ readInMultiline = <<FALSE, FALSE, TRUE, TRUE>>
    /\ ~inMultiline
    /\ input[3] = ContinuationLine
    /\ currentNode[1].Properties[<<"t">>] = <<"x", NL, "y", NL, "z">>

\* the key a declaration is stored under according to C10 as stated
KeyAsClaimed(d) ==
    IF d[2] # None THEN d[2] ELSE IF d[3] # None THEN d[3] ELSE None

\* the key a declaration is stored under when an empty attribute counts as an
\* absent one
KeyStored(d) ==
    IF d[2] \notin {None, EmptyStr} THEN d[2]
    ELSE IF d[3] \notin {None, EmptyStr} THEN d[3]
    ELSE None

\* the registry holds, under each key, the last declaration read with that
\* key, and nothing else
RegistryIs(asClaimed) ==
    LET R == ExtRead
        keyOf(d) == IF asClaimed THEN KeyAsClaimed(d) ELSE KeyStored(d)
    IN  /\ DOMAIN ExtResources = {keyOf(R[j]) : j \in 1..Len(R)} \ {None}
        /\ \A key \in DOMAIN ExtResources :
             LET d == R[SetMax({j \in 1..Len(R) : keyOf(R[j]) = key})]
             IN  /\ ExtResources[key].Path = d[1]
                 /\ ExtResources[key].ID = (IF d[2] = None THEN EmptyStr ELSE d[2])
                 /\ ExtResources[key].UID = (IF d[3] = None THEN EmptyStr ELSE d[3])

\* C9 as stated: when a declaration with id I and path P was read and no later
\* declaration is stored under I, every value that contains the token
\* ExtResource(I) resolves to P
C9_RoundTrip ==
    pc = "resolved" =>
        LET R == ExtRead
        IN  \A t \in 1..Len(resourceRef) : \A j \in 1..Len(R) :
              (/\ resourceRef[t][1] = S_ExtResource
               /\ R[j][2] # None
               /\ R[j][2] = resourceRef[t][2]
               /\ \A m \in (j + 1)..Len(R) : KeyStored(R[m]) # R[j][2])
              => resolved = R[j][1]

\* the first ExtResource token of the value resolved, 0 when it has none
FirstExtToken ==
    LET ts == {t \in 1..Len(resourceRef) : resourceRef[t][1] = S_ExtResource}
    IN  IF ts = {} THEN 0 ELSE SetMin(ts)

\* C9, amended: when a declaration with a non-empty id I and path P was read
\* and no later declaration is stored under I, a value whose first ExtResource
\* token is ExtResource(I) resolves to P
C9_RoundTripFirstToken ==
    pc = "resolved" =>
        LET R == ExtRead
            t == FirstExtToken
        IN  t # 0 =>
              \A j \in 1..Len(R) :
                (/\ R[j][2] \notin {None, EmptyStr}
                 /\ R[j][2] = resourceRef[t][2]
                 /\ \A m \in (j + 1)..Len(R) : KeyStored(R[m]) # R[j][2])
                => resolved = R[j][1]

\* the id was declared twice and the value holds an embedded reference that
\* resolves too, before the external one: the path of the second declaration
\* is returned
C9_Witness ==
    /\ pc = "resolved"
    /\ resourceRef = << <<S_SubResource, <<"1">> >>, <<S_ExtResource, <<"1">> >> >>
    /\ HasKey(SubResources, <<"1">>)
    /\ ExtRead = << << <<"p">>, <<"1">>, None >>, << <<"q">>, <<"1">>, None >> >>
    /\ resolved = <<"q">>

\* C10 as stated: a declaration is stored under its id when the id attribute
\* is present, under its uid when id is absent and uid is present, and not at
\* all when neither is present
C10_KeyedAsClaimed == RegistryIs(TRUE)

\* C10, amended: a declaration is stored under its id when the id attribute is
\* present and not empty, under its uid when that is not so and the uid
\* attribute is present and not empty, and not at all otherwise
C10_KeyedByNonEmpty == RegistryIs(FALSE)

\* one declaration stored under its id though a uid precedes it, one under its
\* uid, one dropped
C10_Witness ==
    /\ lineNum = 3
    /\ LET R == ExtRead
       IN  /\ Len(R) = 3
           /\ \E j \in 1..3 : R[j] = << <<"r">>, <<"2">>, <<"u">> >>
           /\ \E j \in 1..3 : R[j] = << <<"q">>, None, <<"1">> >>
           /\ \E j \in 1..3 : R[j][2] = None /\ R[j][3] = None
    /\ DOMAIN ExtResources = {<<"1">>, <<"2">>}
    /\ ExtResources[<<"1">>].Path = <<"q">>
    /\ ExtResources[<<"2">>].Path = <<"r">>

----------------------------------------------------------------------------
\* C11: findNodeByPath returns the first node, in declaration order, of the
\* first tier that has a match, the tiers being (1) canonical path or declared
\* name equal to the query, (2) canonical path ending with a slash and the
\* query, (3) canonical path containing the query: no node matches in an
\* earlier tier than the result, and none declared before it in the same tier.
C11_TieredLookup ==
    pc = "found" =>
        LET D == Declared
            Tier(k) == IF AllNodes[k].Path = nodePath \/ D[k][1] = nodePath THEN 1
                       ELSE IF HasSuffix(AllNodes[k].Path, <<"/">> \o nodePath) THEN 2
                       ELSE IF Contains(AllNodes[k].Path, nodePath) THEN 3
                       ELSE 4
            r == targetNode
        IN  /\ r # 0 => Tier(r) < 4
            /\ \A k \in 1..Len(AllNodes) :
                   Tier(k) < 4 => /\ r # 0
                                  /\ Tier(r) <= Tier(k)
                                  /\ (Tier(r) = Tier(k) => r <= k)

\* the query B returns the second node, named B, although the canonical path
\* of the first node ends with a slash and B
C11_Witness ==
    /\ pc = "found"
    /\ nodePath = B_
    /\ targetNode = 2
    /\ Declared[2][1] = B_
    /\ HasSuffix(AllNodes[1].Path, <<"/">> \o B_)

\* C12: getPathToNode returns the nodes from RootNode to the target, each a
\* child of the one before it, and the declared names along it joined by
\* slashes are the canonical path of the target; it returns the empty
\* sequence when the target is not reachable from the root or there is no root.
C12_PathFromRoot ==
    pc = "path" =>
        LET P == pathToNode
            t == targetNode
            D == Declared
        IN  IF t # 0 /\ RootNode # 0 /\ ReachesRoot(t, Len(AllNodes))
            THEN /\ Len(P) >= 1
                 /\ P[1] = RootNode
                 /\ P[Len(P)] = t
                 /\ \A j \in 2..Len(P) : P[j] \in Range(AllNodes[P[j - 1]].Children)
                 /\ Join([j \in 1..Len(P) |-> D[P[j]][1]], <<"/">>) = AllNodes[t].Path
            ELSE P = << >>

\* a path of three nodes found after a dead end under the first child of the root
C12_Witness ==
    /\ pc = "path"
    /\ Len(pathToNode) = 3
    /\ AllNodes[RootNode].Children[1] # pathToNode[2]

----------------------------------------------------------------------------
\* the property values held by the nodes of the scene and by the node under
\* construction
PropertyValues ==
    UNION {Range(AllNodes[n].Properties) : n \in 1..Len(AllNodes)}
        \cup (IF currentNode = << >> THEN {} ELSE Range(currentNode[1].Properties))

\* C13: when a line of the input, or a multiline value accumulated over
\* several lines, is larger than the maximum size, ParseTscnFile returns the
\* capacity error.
C13_CapacityError ==
    Parsed =>
        (   \/ \E k \in 1..Len(input) : Len(input[k]) > maxCapacity
            \/ Len(multilineValue) > maxCapacity
            \/ \E value \in PropertyValues : Len(value) > maxCapacity
         => err = ErrTooLong)

----------------------------------------------------------------------------
\* C14: ParseTscnFile returns an error only when opening or reading the file
\* failed or a line did not fit the buffer; otherwise the whole input is read
\* and the error is nil whatever the declarations look like, and every node
\* declaration read is recorded, a missing or unparsable attribute being the
\* empty string or zero.
C14_OnlyIoOrCapacity ==
    /\ err \in {Nil, ErrOpen, ErrRead, ErrTooLong}
    /\ err = ErrTooLong => lineNum < Len(input) /\ TooLong(input[lineNum + 1])
    /\ (Parsed /\ err = Nil) => lineNum = Len(input)
    /\ (Parsed /\ lineNum = Len(input)) => err \in {Nil, ErrRead}
    /\ Parsed =>
          LET D == Declared
          IN  /\ Len(AllNodes) = Len(D)
              /\ \A k \in 1..Len(D) :
                    /\ AllNodes[k].Name = D[k][1]
                    /\ AllNodes[k].Parent = D[k][2]
                    /\ AllNodes[k].Index = D[k][3]
                    /\ AllNodes[k].Type = EmptyStr

\* a node without attributes and a node whose parent no node has, a line
\* without an equals sign and a resource without key: the parse ends with a
\* nil error and both nodes are in the tree
C14_Witness ==
    /\ pc = "done"
    /\ err = Nil
    /\ \E k \in 1..Len(input) : input[k] = GarbageLine
    /\ \E k \in 1..Len(input) : input[k] = KeylessResource
    /\ Len(AllNodes) = 2
    /\ AllNodes[1].Name = EmptyStr
    /\ AllNodes[2].Parent = <<"Z">>
    /\ AllNodes[2].Index = 7

----------------------------------------------------------------------------
\* the node under construction is left as it is, and is the node added to
\* AllNodes when the scanner loop ends
C15_NodeKept ==
    /\ currentNode' = currentNode
    /\ pc' # "scan" => currentNode # << >> /\ AllNodes' = Append(AllNodes, currentNode[1])

\* the last node has its place in the tree
C15_LastNodePlaced ==
    LET n == Len(AllNodes)
    IN  /\ n >= 1
        /\ AllNodes[n].Path # EmptyStr
        /\ n = RootNode \/ ParentsOf(n) # {}

\* C15: when the input ends while a multiline value is open, the value is not
\* committed: from the line that opens the value to the end of the input the
\* Properties and the Script of the node stay as they were, and the node is
\* added to AllNodes and placed in the tree.
C15_OpenValueDiscarded ==
    /\ [][(pc = "scan" /\ inMultiline') => C15_NodeKept]_vars
    /\ []((pc = "done" /\ inMultiline) => C15_LastNodePlaced)

\* the input ends after the opening line and a continuation line: the node is
\* in the tree and has no property under the key of the open value
C15_Witness ==
    /\ pc = "done"
    /\ inMultiline
    /\ lineNum >= 3
    /\ readInMultiline[lineNum]
    /\ multilineProperty = <<"t">>
    /\ Len(AllNodes) >= 1
    /\ ~HasKey(AllNodes[Len(AllNodes)].Properties, multilineProperty)

----------------------------------------------------------------------------
\* the keys the external declarations read so far are stored under
ExtKeysRead == {KeyStored(ExtRead[j]) : j \in 1..Len(ExtRead)} \ {None}

\* C16: when the value holds an external reference whose id is not a key of
\* ExtResources, resolveResourcePath returns the empty string.
C16_MissIsEmpty ==
    pc = "resolved" =>
        ((\E t \in 1..Len(resourceRef) :
             /\ resourceRef[t][1] = S_ExtResource
             /\ resourceRef[t][2] \notin ExtKeysRead)
         => resolved = EmptyStr)

\* what the declarations read so far make of one reference token
TokenResolution(token) ==
    LET R == ExtRead
        js == {j \in 1..Len(R) : KeyStored(R[j]) = token[2]}
        subs == {d \in SubDecls :
                   /\ d[2] = token[2]
                   /\ \E k \in 1..lineNum : TrimSpace(input[k]) = SubLine(d)}
    IN  IF token[1] = S_ExtResource
        THEN (IF js = {} THEN EmptyStr ELSE R[SetMax(js)][1])
        ELSE (IF subs = {} THEN EmptyStr
              ELSE S_SubResource \o <<"(">> \o (CHOOSE d \in subs : TRUE)[1] \o <<")">>)

\* C17: the result of resolveResourcePath is the resolution of the reference
\* token that stands first in the value, whatever tokens follow it.
C17_FirstTokenOnly ==
    (pc = "resolved" /\ Len(resourceRef) >= 1) =>
        resolved = TokenResolution(resourceRef[1])

----------------------------------------------------------------------------
\* the node that node k is attached to, 0 for the root
AttachedTo(k) == IF k = RootNode THEN 0 ELSE ParentOf(k)

\* the nodes declared before node k that each step of the parent resolution
\* finds for the parent reference of node k
ByPath(k) == {j \in 1..(k - 1) : AllNodes[j].Path = Declared[k][2]}

ByName(k) == {j \in 1..(k - 1) : Declared[j][1] = Declared[k][2]}

ByLastComponent(k) ==
    LET ref == Declared[k][2]
        slashes == {p \in 1..Len(ref) : ref[p] = "/"}
    IN  IF slashes = {} THEN {}
        ELSE {j \in 1..(k - 1) :
                Declared[j][1] = SubSeq(ref, SetMax(slashes) + 1, Len(ref))}

BySuffix(k) ==
    {j \in 1..(k - 1) : HasSuffix(AllNodes[j].Path, <<"/">> \o Declared[k][2])}

\* the nodes whose parent reference is neither empty nor one dot
Referring == {k \in 1..Len(AllNodes) : Declared[k][2] \notin {EmptyStr, Dot}}

\* C18: the parent of a node whose parent reference is neither empty nor one
\* dot is found by the first of these steps that finds a node declared before
\* it: (a) canonical path equal to the reference, (b) declared name equal to
\* the reference, (c) declared name equal to the last component of a reference
\* with a slash, (d) canonical path ending with a slash and the reference.
C18_StepsInOrder ==
    Assembled =>
        \A k \in Referring :
            IF ByPath(k) # {} THEN AttachedTo(k) \in ByPath(k)
            ELSE IF ByName(k) # {} THEN AttachedTo(k) \in ByName(k)
            ELSE IF ByLastComponent(k) # {} THEN AttachedTo(k) \in ByLastComponent(k)
            ELSE IF BySuffix(k) # {} THEN AttachedTo(k) \in BySuffix(k)
            ELSE TRUE

\* a node whose parent is found by step (b) because step (a) finds nothing,
\* although step (d) would find another node
C18_Witness ==
    /\ pc = "done"
    /\ \E k \in Referring :
         /\ ByPath(k) = {}
         /\ AttachedTo(k) \in ByName(k)
         /\ BySuffix(k) \ ByName(k) # {}

\* C19: when the parent is found by name, on the whole reference or on its
\* last component, and several nodes declared before carry that name, the
\* parent is the one declared first.
C19_EarliestNamed ==
    Assembled =>
        \A k \in Referring :
            ByPath(k) = {} =>
                IF ByName(k) # {} THEN AttachedTo(k) = SetMin(ByName(k))
                ELSE ByLastComponent(k) # {} => AttachedTo(k) = SetMin(ByLastComponent(k))

\* two nodes named B, the second below the first: a later node that refers to
\* B is attached to the first
C19_Witness ==
    /\ pc = "done"
    /\ Len(AllNodes) = 4
    /\ ByPath(4) = {}
    /\ ByName(4) = {2, 3}
    /\ AttachedTo(3) = 2
    /\ AttachedTo(4) = 2

\* C20: a node whose parent reference is one dot and that is not the first
\* node is attached to the root, after the children of the root declared
\* before it, and its path is the path of the root, a slash and its name,
\* even when a node declared before it is named with one dot.
C20_DotIsChildOfRoot ==
    Assembled =>
        LET D == Declared
            children == AllNodes[RootNode].Children
        IN  \A k \in 2..Len(AllNodes) :
              D[k][2] = Dot =>
                /\ ParentsOf(k) = {RootNode}
                /\ AllNodes[k].Path = AllNodes[RootNode].Path \o <<"/">> \o D[k][1]
                /\ \A a, b \in 1..Len(children) :
                      children[b] = k => (a < b <=> children[a] < k)

\* the second node is named with one dot; the third refers to one dot and is
\* the second child of the root
C20_Witness ==
    /\ pc = "done"
    /\ Len(AllNodes) >= 3
    /\ RootNode = 1
    /\ Declared[1][1] = A_
    /\ Declared[2] = <<Dot, Dot, 0>>
    /\ Declared[3][2] = Dot
    /\ AllNodes[1].Children[2] = 3

----------------------------------------------------------------------------
\* the nodes for which no parent is resolved: an empty parent reference, one
\* dot when the node is the first, or a reference no step of the resolution
\* finds a node for
Unresolved ==
    {k \in 1..Len(AllNodes) :
        \/ Declared[k][2] = EmptyStr
        \/ Declared[k][2] = Dot /\ k = 1
        \/ /\ k \in Referring
           /\ ByPath(k) = {} /\ ByName(k) = {}
           /\ ByLastComponent(k) = {} /\ BySuffix(k) = {}}

\* C21: a node for which no parent is resolved is attached to the root, with
\* the path of the root, a slash and its name, when a root exists, that is
\* when it is not the first node; the first node becomes the root itself.
C21_FallbackToRoot ==
    Assembled =>
        \A k \in Unresolved :
            IF k = 1
            THEN RootNode = 1 /\ AllNodes[1].Path = Declared[1][1]
            ELSE /\ k # RootNode
                 /\ ParentsOf(k) = {RootNode}
                 /\ AllNodes[k].Path =
                      AllNodes[RootNode].Path \o <<"/">> \o Declared[k][1]

\* a node with an empty parent reference declared after the root, and a node
\* whose reference matches nothing, are both children of the root
C21_Witness ==
    /\ pc = "done"
    /\ \E k \in Unresolved :
         k > 1 /\ Declared[k][2] = EmptyStr /\ ParentsOf(k) = {RootNode}
    /\ \E k \in Unresolved :
         k > 1 /\ k \in Referring /\ ParentsOf(k) = {RootNode}

\* C22: the parent of every node but the root is declared before the node,
\* also when the only node that carries the referenced name is declared after.
C22_BackwardOnly ==
    Assembled =>
        \A n \in 1..Len(AllNodes) :
            \A p \in ParentsOf(n) : p < n

\* the second node refers to the name of the third only, and is attached to
\* the first
C22_Witness ==
    /\ pc = "done"
    /\ Len(AllNodes) >= 3
    /\ Declared[1][1] = A_
    /\ Declared[2] = <<A_, B_, 0>>
    /\ Declared[3][1] = B_
    /\ ParentsOf(2) = {1}

\* C30: when a node was declared, RootNode is the first declared node,
\* whatever its parent reference, and every later node is below it.
C30_FirstNodeIsRoot ==
    Assembled =>
        (Len(Declared) >= 1 =>
            /\ RootNode = 1
            /\ \A n \in 2..Len(AllNodes) :
                  /\ ParentsOf(n) # {}
                  /\ ReachesRoot(n, Len(AllNodes)))

\* the first node refers to a name, the second has an empty parent reference
\* and is a child of the first
C30_Witness ==
    /\ pc = "done"
    /\ Len(AllNodes) >= 2
    /\ Declared[1][2] = B_
    /\ Declared[2][2] = EmptyStr
    /\ RootNode = 1
    /\ ParentsOf(2) = {1}

----------------------------------------------------------------------------
\* the property line just read in a node section, outside a multiline value
PropertyLineRead ==
    /\ pc = "scan" /\ lineNum >= 1 /\ inNode /\ currentNode # << >>
    /\ ~readInMultiline[lineNum]
    /\ IsPropertyLine(TrimSpace(input[lineNum]))

\* the value the node holds under the key of the line just read
StoredValue == currentNode[1].Properties[KeyText(TrimSpace(input[lineNum]))]

\* C23 as stated: a property value enclosed in a pair of quotes is stored
\* without that pair of quotes
C23_QuotesStripped ==
    PropertyLineRead =>
        LET value == ValueText(TrimSpace(input[lineNum]))
        IN  (Len(value) >= 2 /\ value[1] = Q /\ value[Len(value)] = Q) =>
              StoredValue = UnescapeNewlines(SubSeq(value, 2, Len(value) - 1))

\* C23, amended: a property value enclosed in a pair of quotes is stored with
\* both quotes; a quote is stripped only when it stands at the end of a value
\* that does not begin with one
C23_OnlyLoneQuoteStripped ==
    PropertyLineRead =>
        LET value == ValueText(TrimSpace(input[lineNum]))
            last == value[Len(value)]
        IN  /\ (Len(value) >= 2 /\ value[1] = Q /\ last = Q) =>
                  /\ StoredValue = UnescapeNewlines(value)
                  /\ StoredValue[1] = Q
                  /\ StoredValue[Len(StoredValue)] = Q
            /\ (Len(value) >= 2 /\ value[1] # Q /\ last = Q) =>
                  StoredValue = UnescapeNewlines(SubSeq(value, 1, Len(value) - 1))

\* a value in a pair of quotes was stored with the pair, after a value with a
\* lone closing quote was stored without it
C23_Witness ==
    /\ pc = "scan"
    /\ lineNum = 4
    /\ input[3] = TrailingQuoteLine
    /\ input[4] = QuotedLine
    /\ currentNode # << >>
    /\ currentNode[1].Properties[<<"t">>] = <<Q, "x", Q>>

\* C24: while a multiline value is open, a line that does not end with a
\* quote is appended to the value as it stands in the input, white space
\* included, followed by one newline.
C24_ContinuationVerbatim ==
    [][(/\ pc = "scan" /\ inMultiline /\ lineNum' = lineNum + 1
        /\ LET text == input[lineNum + 1]
           IN  text = EmptyStr \/ text[Len(text)] # Q)
       => multilineValue' = multilineValue \o input[lineNum + 1] \o <<NL>>]_vars

\* C26: no value a node holds has a backslash followed by n left in it,
\* whether it was read from one line or accumulated over several.
C26_EscapesConverted ==
    \A value \in PropertyValues : ~Contains(value, <<BS, "n">>)

\* C28: a line that ends with a backslash and a quote, read while a multiline
\* value is open, leaves the value open.
C28_EscapedQuoteKeepsOpen ==
    [][(/\ pc = "scan" /\ inMultiline /\ lineNum' = lineNum + 1
        /\ HasSuffix(input[lineNum + 1], <<BS, Q>>))
       => inMultiline']_vars

----------------------------------------------------------------------------
\* the line the scanner reads in this step, trimmed
LineRead == TrimSpace(input[lineNum + 1])

\* C25: a line read while a multiline value is open creates no node, registers
\* no resource and leaves the in-node context alone; unless it ends with a
\* quote it is appended to the value, followed by a newline, whether it looks
\* like a section header, is blank or begins with a semicolon.
C25_NoClassification ==
    [][(pc = "scan" /\ inMultiline /\ lineNum' = lineNum + 1) =>
          /\ AllNodes' = AllNodes
          /\ ExtResources' = ExtResources
          /\ SubResources' = SubResources
          /\ inNode' = inNode
          /\ currentNode' # << >>
          /\ currentNode'[1].Name = currentNode[1].Name
          /\ (LineRead = EmptyStr \/ LineRead[Len(LineRead)] # Q) =>
                /\ inMultiline'
                /\ currentNode' = currentNode
                /\ multilineValue' = multilineValue \o LineRead \o <<NL>>]_vars

\* a node header and a comment line were read into the open value: there is
\* still one node only, the one under construction
C25_Witness ==
    /\ pc = "scan"
    /\ inMultiline
    /\ lineNum = 4
    /\ input[3] = NodeB
    /\ input[4] = CommentLine
    /\ AllNodes = << >>
    /\ currentNode[1].Name = A_
    /\ Len(multilineValue) > Len(NodeB)

\* C27: outside a multiline value, a property line whose value begins with a
\* quote and does not end with one opens a multiline value, with the key and
\* the value without its quote and with a newline, in whichever section the
\* line stands.
C27_OpensInAnySection ==
    [][(/\ pc = "scan" /\ ~inMultiline /\ lineNum' = lineNum + 1
        /\ IsPropertyLine(LineRead)
        /\ LET value == ValueText(LineRead)
           IN  value # EmptyStr /\ value[1] = Q /\ value[Len(value)] # Q)
       => /\ inMultiline'
          /\ multilineProperty' = KeyText(LineRead)
          /\ multilineValue' = Tail(ValueText(LineRead)) \o <<NL>>]_vars

\* the line of the k-th node header read outside a multiline value
HeaderLineOf(k) ==
    CHOOSE h \in HeaderLines : Cardinality({g \in HeaderLines : g <= h}) = k

\* the property lines of the section of the k-th node: those read after its
\* header with no bracketed line in between
OwnPropertyLines(k) ==
    LET h == HeaderLineOf(k)
    IN  {j \in (h + 1)..lineNum :
            /\ IsPropertyLine(TrimSpace(input[j]))
            /\ \A m \in (h + 1)..(j - 1) : ~HasPrefix(TrimSpace(input[m]), <<"[">>)}

\* C29: a node holds the properties of the property lines that follow its own
\* header with no other bracketed line in between, and no others: a property
\* line after another section header, or before the first node header, is
\* stored in no node, and the node declared before that section is recorded
\* with the properties it had.
C29_NodeContext ==
    Parsed =>
        /\ Len(AllNodes) = Cardinality(HeaderLines)
        /\ \A k \in 1..Len(AllNodes) :
              LET own == OwnPropertyLines(k)
                  props == AllNodes[k].Properties
              IN  /\ DOMAIN props = {KeyText(TrimSpace(input[j])) : j \in own}
                  /\ \A j \in own :
                        LET line == TrimSpace(input[j])
                        IN  (\A m \in own : m > j => KeyText(TrimSpace(input[m])) # KeyText(line))
                            => props[KeyText(line)] = UnescapeNewlines(ValueText(line))

\* a node with one property, then the header of another section and a second
\* property line: the node is recorded with the first property only
C29_Witness ==
    /\ pc = "done"
    /\ Len(input) = 4
    /\ input[1] = NodeA
    /\ input[2] = QuotedLine
    /\ input[3] \in {GdScene, ExtOne, SubOne, OtherSection}
    /\ input[4] = BareLine
    /\ Len(AllNodes) = 1
    /\ DOMAIN AllNodes[1].Properties = {<<"t">>}

----------------------------------------------------------------------------
\* the nodes that carry a canonical path, in the order of their declaration
Carrying(path) == {j \in 1..Len(AllNodes) : AllNodes[j].Path = path}

\* C31: the path index holds, for every canonical path, the node declared last
\* among the nodes that carry the path; a node whose parent reference equals
\* the canonical path of nodes declared before it is attached to the last
\* declared of them, while a node whose parent is found by name is attached to
\* the first declared node of that name.
C31_LastPathFirstName ==
    Assembled =>
        /\ DOMAIN pathMap = {AllNodes[j].Path : j \in 1..Len(AllNodes)}
        /\ \A path \in DOMAIN pathMap : pathMap[path] = SetMax(Carrying(path))
        /\ \A k \in Referring :
              IF ByPath(k) # {} THEN AttachedTo(k) = SetMax(ByPath(k))
              ELSE ByName(k) # {} => AttachedTo(k) = SetMin(ByName(k))

\* two children of the root named B share the path A/B; a fourth node that
\* refers to A/B is attached to the second of them
C31_Witness ==
    /\ pc = "done"
    /\ Len(AllNodes) = 4
    /\ Declared[1][1] = A_
    /\ Declared[2] = <<B_, Dot, 0>>
    /\ Declared[3] = <<B_, Dot, 0>>
    /\ Declared[4][2] = AB_
    /\ ByPath(4) = {2, 3}
    /\ AttachedTo(4) = 3

----------------------------------------------------------------------------
\* no declared name holds a slash
NoSlashNames == \A j \in 1..Len(Declared) : ~Contains(Declared[j][1], <<"/">>)

\* the nodes with a reference for which steps (a), (b) and (c) find nothing
PastNameSteps ==
    {k \in Referring :
        ByPath(k) = {} /\ ByName(k) = {} /\ ByLastComponent(k) = {}}

\* C32: when steps (a), (b) and (c) find nothing for the reference of a node,
\* a canonical path of a node declared before it ends with a slash and the
\* reference only if a name declared before it holds a slash; when no declared
\* name holds a slash, no such path exists and the node is attached to the
\* root, or is the root when it is the first node.
C32_SuffixNeedsSlashName ==
    Assembled =>
        \A k \in PastNameSteps :
            /\ BySuffix(k) # {} =>
                 \E j \in 1..(k - 1) : Contains(Declared[j][1], <<"/">>)
            /\ NoSlashNames =>
                 /\ BySuffix(k) = {}
                 /\ IF k = 1 THEN RootNode = 1 ELSE ParentsOf(k) = {RootNode}

\* a root named with one dot, its child A, and a node B that refers to A/B:
\* no name holds a slash, no node is named B, and B is attached to the root
C32_Witness ==
    /\ pc = "done"
    /\ Len(AllNodes) = 3
    /\ NoSlashNames
    /\ Declared[1] = <<Dot, Dot, 0>>
    /\ Declared[2] = <<A_, Dot, 0>>
    /\ Declared[3] = <<B_, AB_, 0>>
    /\ 3 \in PastNameSteps
    /\ AllNodes[2].Path = <<".", "/", "A">>
    /\ ParentsOf(3) = {1}

----------------------------------------------------------------------------
\* C33: the Children list of every node is strictly increasing in the index
\* of declaration: the children of a node stand in the order in which they
\* were declared.
C33_ChildrenInDeclarationOrder ==
    Assembled =>
        \A p \in 1..Len(AllNodes) :
            LET children == AllNodes[p].Children
            IN  \A a \in 1..Len(children) : \A b \in 1..Len(children) :
                    a < b => children[a] < children[b]

\* the root has its second and fourth declared nodes as children, in that
\* order, and the third declared node is a child of the second
C33_Witness ==
    /\ pc = "done"
    /\ Len(AllNodes) = 4
    /\ Len(Declared) = 4
    /\ AllNodes[1].Children = <<2, 4>>
    /\ AllNodes[2].Children = <<3>>

----------------------------------------------------------------------------
\* sub stands somewhere in s
IsSubstring(sub, s) ==
    \E p \in 0..(Len(s) - Len(sub)) : SubSeq(s, p + 1, p + Len(sub)) = sub

\* the nodes whose canonical path holds the query as a substring
Holding(query) ==
    {j \in 1..Len(AllNodes) : IsSubstring(query, AllNodes[j].Path)}

\* C34: findNodeByPath returns no node exactly when the canonical path of no
\* node holds the query as a substring; every node whose path or declared name
\* equals the query, or whose path ends with a slash and the query, is among
\* the nodes whose path holds the query.
C34_NotFoundIffNoSubstring ==
    pc = "found" =>
        /\ (targetNode = 0) <=> (Holding(nodePath) = {})
        /\ \A j \in 1..Len(AllNodes) :
              (\/ AllNodes[j].Path = nodePath
               \/ Declared[j][1] = nodePath
               \/ HasSuffix(AllNodes[j].Path, <<"/">> \o nodePath))
                  => j \in Holding(nodePath)

\* a query is found in the middle of the path of a node although no path
\* and no name equals it and no path ends with a slash and the query
C34_Witness ==
    /\ pc = "found"
    /\ Len(AllNodes) >= 2
    /\ targetNode # 0
    /\ targetNode = SetMin(Holding(nodePath))
    /\ \A j \in 1..Len(AllNodes) :
          /\ AllNodes[j].Path # nodePath
          /\ Declared[j][1] # nodePath
          /\ ~HasSuffix(AllNodes[j].Path, <<"/">> \o nodePath)

====
